---- MODULE Spec2Model ----
(***************************************************************************)
(* Ocean Hazard Monitoring: a model of the dashboard's refresh pipeline    *)
(* (monitoring/dashboard.py) and of the NLP processor's text cleaning and  *)
(* batch processing (nlp_analytics/nlp_processor.py).                      *)
(*                                                                         *)
(* Four specifications share the variables:                                *)
(*   Spec       the dashboard: start(), stop(), the background refresh     *)
(*              loop, the refresh_data callback and the statements of      *)
(*              collect_and_analyze_data, interleaved thread by thread;    *)
(*   SeqSpec    the same dashboard in the runs where no two calls of       *)
(*              collect_and_analyze_data overlap;                          *)
(*   CleanSpec  NLPProcessor.clean_text applied to a text and to its own   *)
(*              result;                                                    *)
(*   NlpSpec    NLPProcessor.process_batch over a list of text values, and *)
(*              direct calls of clean_text and preprocess_text.            *)
(***************************************************************************)
EXTENDS Integers, Sequences, FiniteSets, TLC

VARIABLES
    \* ---- OceanHazardDashboard (dashboard.py) ----
    running,          \* self.running
    interval,         \* self.refresh_interval, by what time.sleep does with it
    real,             \* self.data_collector and self.hazard_detector are both set
    current_hazards,  \* self.current_hazards
    hazard_history,   \* the list self.hazard_history is bound to
    histObj,          \* identity of the list object self.hazard_history is bound to
    pc,               \* per thread: the statement it is at
    batch,            \* per thread: prioritized_reports / mock_data (a local)
    ref,              \* per thread: the list object loaded for .extend()
    tmp,              \* per thread: the value of self.hazard_history[-1000:]
    failed,           \* per thread: the call in progress went through the except clause
    nextId,           \* the next fresh report
    calls,            \* calls of collect_and_analyze_data begun so far
    \* ---- history variables (not program state) ----
    log,              \* every report passed to hazard_history.extend, in order
    snap,             \* current_hazards and hazard_history when the latest call began
    \* ---- NLPProcessor.clean_text (CleanSpec) ----
    text,             \* the argument
    cleaned,          \* clean_text(text)
    recleaned,        \* clean_text(clean_text(text))
    cpc,              \* position of the clean-twice scenario
    \* ---- NLPProcessor.process_batch (NlpSpec) ----
    env,              \* what __init__ and the libraries behind the processor did
    texts,            \* the argument of process_batch
    bi,               \* the for loop's position in texts
    results,          \* the local list results
    bout,             \* the list process_batch returned
    bpc,              \* the statement process_batch is at
    probe             \* a direct call of clean_text and preprocess_text

dashVars == <<running, interval, real, current_hazards, hazard_history, histObj,
              pc, batch, ref, tmp, failed, nextId, calls, log, snap>>
cleanVars == <<text, cleaned, recleaned, cpc>>
nlpVars == <<env, texts, bi, results, bout, bpc, probe>>
vars == <<dashVars, cleanVars, nlpVars>>

(***************************************************************************)
(* Constants of the program and bounds of the model.                       *)
(***************************************************************************)
HistoryCap == 1000
MockBatch == 5
SmallBatch == 2
BigBatch == 999
MaxCalls == 2
MaxSeqCalls == 3
MaxMockReports == 1005

Threads == {"main", "loop", "cb"}

\* A Python value bound to prioritized_reports / current_hazards: a list of
\* reports, or a value that is not iterable (None).
ListVal(s) == [isList |-> TRUE, items |-> s]
NoneVal == [isList |-> FALSE, items |-> <<>>]

\* s[-n:]
LastSlice(s, n) == IF Len(s) <= n THEN s ELSE SubSeq(s, Len(s) - n + 1, Len(s))

\* n fresh reports, in the order the prioritizer (or the mock table) lists them.
NewReports(n) == [i \in 1..n |-> nextId + i - 1]

\* What time.sleep(self.refresh_interval) does: returns, or raises ValueError
\* (negative) or OverflowError (too large for the platform's time_t).
IntervalKinds == {"ok", "negative", "too_large"}
SleepRaises(iv) == iv # "ok"
\* min(self.refresh_interval, 10) as an argument of time.sleep: a negative
\* interval stays negative, a too large one becomes 10.
BackoffRaises(iv) == iv = "negative"

\* Statements of collect_and_analyze_data, from the try to the return.
InCall == {"pipeline", "store_current", "load_hist", "extend", "check_len",
           "slice", "store_hist", "except", "return"}
\* Statements between hazard_history.extend and the end of the size check.
MidUpdate == {"check_len", "slice", "store_hist"}

Executing(t) == pc[t] \in InCall

DashInit ==
    /\ running = FALSE
    /\ interval \in IntervalKinds
    /\ real \in BOOLEAN
    /\ current_hazards = ListVal(<<>>)
    /\ hazard_history = <<>>
    /\ histObj = 0
    /\ pc = [t \in Threads |-> IF t = "main" THEN "init" ELSE
                               IF t = "loop" THEN "unstarted" ELSE "idle"]
    /\ batch = [t \in Threads |-> ListVal(<<>>)]
    /\ ref = [t \in Threads |-> 0]
    /\ tmp = [t \in Threads |-> <<>>]
    /\ failed = [t \in Threads |-> FALSE]
    /\ nextId = 1
    /\ calls = 0
    /\ log = <<>>
    /\ snap = [cur |-> ListVal(<<>>), hist |-> <<>>]

CleanIdle ==
    /\ text = <<>>
    /\ cleaned = <<>>
    /\ recleaned = <<>>
    /\ cpc = "off"

\* The processor as __init__ leaves it when everything loads, and no call made.
NlpIdle ==
    /\ env = [initOk |-> TRUE, tokOk |-> TRUE, scorer |-> "ok", probs |-> <<900, 100>>]
    /\ texts = <<>>
    /\ bi = 0
    /\ results = <<>>
    /\ bout = <<>>
    /\ bpc = "off"
    /\ probe = [done |-> FALSE]

Init == DashInit /\ CleanIdle /\ NlpIdle

(***************************************************************************)
(* start(), stop() and the threads that call collect_and_analyze_data.     *)
(***************************************************************************)

\* start(): set running, start the refresh thread, go on to the initial
\* collection.
Start ==
    /\ pc["main"] = "init"
    /\ running' = TRUE
    /\ pc' = [pc EXCEPT !["main"] = "begin", !["loop"] = "while"]
    /\ UNCHANGED <<interval, real, current_hazards, hazard_history, histObj, batch,
                   ref, tmp, failed, nextId, calls, log, snap, cleanVars, nlpVars>>

\* stop(): clear running (the join that follows changes no state).
Stop ==
    /\ running
    /\ running' = FALSE
    /\ UNCHANGED <<interval, real, current_hazards, hazard_history, histObj, pc,
                   batch, ref, tmp, failed, nextId, calls, log, snap,
                   cleanVars, nlpVars>>

\* while self.running:
LoopTest ==
    /\ pc["loop"] = "while"
    /\ pc' = [pc EXCEPT !["loop"] = IF running THEN "begin" ELSE "exited"]
    /\ UNCHANGED <<running, interval, real, current_hazards, hazard_history, histObj,
                   batch, ref, tmp, failed, nextId, calls, log, snap,
                   cleanVars, nlpVars>>

\* time.sleep(self.refresh_interval) inside the loop's try.
LoopSleep ==
    /\ pc["loop"] = "sleep"
    /\ pc' = [pc EXCEPT !["loop"] = IF SleepRaises(interval) THEN "handler" ELSE "while"]
    /\ UNCHANGED <<running, interval, real, current_hazards, hazard_history, histObj,
                   batch, ref, tmp, failed, nextId, calls, log, snap,
                   cleanVars, nlpVars>>

\* except Exception: log, then time.sleep(min(self.refresh_interval, 10)); an
\* exception raised here leaves the loop and ends the thread.
LoopHandler ==
    /\ pc["loop"] = "handler"
    /\ pc' = [pc EXCEPT !["loop"] = IF BackoffRaises(interval) THEN "crashed" ELSE "while"]
    /\ UNCHANGED <<running, interval, real, current_hazards, hazard_history, histObj,
                   batch, ref, tmp, failed, nextId, calls, log, snap,
                   cleanVars, nlpVars>>

\* refresh_data fires (interval tick or button) once the server is running.
CallbackFire ==
    /\ pc["cb"] = "idle"
    /\ pc["main"] = "serving"
    /\ pc' = [pc EXCEPT !["cb"] = "begin"]
    /\ UNCHANGED <<running, interval, real, current_hazards, hazard_history, histObj,
                   batch, ref, tmp, failed, nextId, calls, log, snap,
                   cleanVars, nlpVars>>

(***************************************************************************)
(* collect_and_analyze_data, one shared-memory access per step.            *)
(***************************************************************************)

\* Entering the function (the try).
Begin(t) ==
    /\ pc[t] = "begin"
    /\ calls < MaxCalls
    /\ calls' = calls + 1
    /\ snap' = [cur |-> current_hazards, hist |-> hazard_history]
    /\ failed' = [failed EXCEPT ![t] = FALSE]
    /\ pc' = [pc EXCEPT ![t] = "pipeline"]
    /\ UNCHANGED <<running, interval, real, current_hazards, hazard_history, histObj,
                   batch, ref, tmp, nextId, log, cleanVars, nlpVars>>

\* The same, in a run where the callers take turns: no other call is in
\* progress. The real path is bounded by its number of calls, the mock path
\* (five reports a call) by its number of reports.
SeqBegin(t) ==
    /\ pc[t] = "begin"
    /\ \A u \in Threads \ {t} : ~Executing(u)
    /\ IF real THEN calls < MaxSeqCalls ELSE nextId <= MaxMockReports
    /\ calls' = calls + 1
    /\ snap' = [cur |-> current_hazards, hist |-> hazard_history]
    /\ failed' = [failed EXCEPT ![t] = FALSE]
    /\ pc' = [pc EXCEPT ![t] = "pipeline"]
    /\ UNCHANGED <<running, interval, real, current_hazards, hazard_history, histObj,
                   batch, ref, tmp, nextId, log, cleanVars, nlpVars>>

\* Real path: collect_all_data, analyze_batch_reports and prioritize_reports
\* return a list of reports ...
PipelineList(t) ==
    /\ pc[t] = "pipeline"
    /\ real
    /\ \E n \in {0, SmallBatch, BigBatch} :
        /\ batch' = [batch EXCEPT ![t] = ListVal(NewReports(n))]
        /\ nextId' = nextId + n
    /\ pc' = [pc EXCEPT ![t] = "store_current"]
    /\ UNCHANGED <<running, interval, real, current_hazards, hazard_history, histObj,
                   ref, tmp, failed, calls, log, snap, cleanVars, nlpVars>>

\* ... or prioritize_reports returns a value that is not a list ...
PipelineNone(t) ==
    /\ pc[t] = "pipeline"
    /\ real
    /\ batch' = [batch EXCEPT ![t] = NoneVal]
    /\ pc' = [pc EXCEPT ![t] = "store_current"]
    /\ UNCHANGED <<running, interval, real, current_hazards, hazard_history, histObj,
                   ref, tmp, failed, nextId, calls, log, snap, cleanVars, nlpVars>>

\* ... or one of the three calls raises.
PipelineRaise(t) ==
    /\ pc[t] = "pipeline"
    /\ real
    /\ pc' = [pc EXCEPT ![t] = "except"]
    /\ UNCHANGED <<running, interval, real, current_hazards, hazard_history, histObj,
                   batch, ref, tmp, failed, nextId, calls, log, snap,
                   cleanVars, nlpVars>>

\* Mock path: _generate_mock_data builds its five-entry table.
PipelineMock(t) ==
    /\ pc[t] = "pipeline"
    /\ ~real
    /\ batch' = [batch EXCEPT ![t] = ListVal(NewReports(MockBatch))]
    /\ nextId' = nextId + MockBatch
    /\ pc' = [pc EXCEPT ![t] = "store_current"]
    /\ UNCHANGED <<running, interval, real, current_hazards, hazard_history, histObj,
                   ref, tmp, failed, calls, log, snap, cleanVars, nlpVars>>

\* A variant that accumulates: the new reports are added to the old list.
NewCurrent_Accumulate(cur, b) ==
    IF cur.isList /\ b.isList THEN ListVal(cur.items \o b.items) ELSE b

\* The value self.current_hazards is rebound to.
NewCurrent(cur, b) == b

\* self.current_hazards = prioritized_reports   (mock: = mock_data)
StoreCurrent(t) ==
    /\ pc[t] = "store_current"
    /\ current_hazards' = NewCurrent(current_hazards, batch[t])
    /\ pc' = [pc EXCEPT ![t] = "load_hist"]
    /\ UNCHANGED <<running, interval, real, hazard_history, histObj, batch, ref, tmp,
                   failed, nextId, calls, log, snap, cleanVars, nlpVars>>

\* self.hazard_history.extend(...): the attribute is loaded first ...
LoadHist(t) ==
    /\ pc[t] = "load_hist"
    /\ ref' = [ref EXCEPT ![t] = histObj]
    /\ pc' = [pc EXCEPT ![t] = "extend"]
    /\ UNCHANGED <<running, interval, real, current_hazards, hazard_history, histObj,
                   batch, tmp, failed, nextId, calls, log, snap, cleanVars, nlpVars>>

\* list.extend(h, b) for a list b.
Extended(h, b) == h \o b

\* ... then extend is called on the loaded list: TypeError for a value that is
\* not iterable; an extend of a list the attribute is no longer bound to is
\* lost with that list.
Extend(t) ==
    /\ pc[t] = "extend"
    /\ IF ~batch[t].isList
         THEN /\ pc' = [pc EXCEPT ![t] = "except"]
              /\ UNCHANGED <<hazard_history, log>>
         ELSE /\ hazard_history' = IF ref[t] = histObj
                                     THEN Extended(hazard_history, batch[t].items)
                                     ELSE hazard_history
              /\ log' = log \o batch[t].items
              /\ pc' = [pc EXCEPT ![t] = "check_len"]
    /\ ref' = [ref EXCEPT ![t] = 0]
    /\ UNCHANGED <<running, interval, real, current_hazards, histObj, batch, tmp,
                   failed, nextId, calls, snap, cleanVars, nlpVars>>

\* A variant that is off by one: a history of 1001 entries is left alone.
OverCap_OffByOne(h) == Len(h) > HistoryCap + 1

\* len(self.hazard_history) > 1000
OverCap(h) == Len(h) > HistoryCap

\* if len(self.hazard_history) > 1000:
CheckLen(t) ==
    /\ pc[t] = "check_len"
    /\ pc' = [pc EXCEPT ![t] = IF OverCap(hazard_history) THEN "slice" ELSE "return"]
    /\ UNCHANGED <<running, interval, real, current_hazards, hazard_history, histObj,
                   batch, ref, tmp, failed, nextId, calls, log, snap,
                   cleanVars, nlpVars>>

\* A variant that keeps the oldest entries: self.hazard_history[:1000].
Trimmed_KeepOldest(h) == IF Len(h) <= HistoryCap THEN h ELSE SubSeq(h, 1, HistoryCap)

\* self.hazard_history[-1000:]
Trimmed(h) == LastSlice(h, HistoryCap)

\* The right-hand side self.hazard_history[-1000:] is evaluated ...
Slice(t) ==
    /\ pc[t] = "slice"
    /\ tmp' = [tmp EXCEPT ![t] = Trimmed(hazard_history)]
    /\ pc' = [pc EXCEPT ![t] = "store_hist"]
    /\ UNCHANGED <<running, interval, real, current_hazards, hazard_history, histObj,
                   batch, ref, failed, nextId, calls, log, snap, cleanVars, nlpVars>>

\* ... and self.hazard_history is rebound to the new list.
StoreHist(t) ==
    /\ pc[t] = "store_hist"
    /\ hazard_history' = tmp[t]
    /\ histObj' = histObj + 1
    /\ tmp' = [tmp EXCEPT ![t] = <<>>]
    /\ pc' = [pc EXCEPT ![t] = "return"]
    /\ UNCHANGED <<running, interval, real, current_hazards, batch, ref, failed,
                   nextId, calls, log, snap, cleanVars, nlpVars>>

\* except Exception as e: logger.error(...)
Except(t) ==
    /\ pc[t] = "except"
    /\ failed' = [failed EXCEPT ![t] = TRUE]
    /\ pc' = [pc EXCEPT ![t] = "return"]
    /\ UNCHANGED <<running, interval, real, current_hazards, hazard_history, histObj,
                   batch, ref, tmp, nextId, calls, log, snap, cleanVars, nlpVars>>

\* The call returns to its caller: start() goes on to run_server, the loop to
\* its sleep, the callback to its reply.
Return(t) ==
    /\ pc[t] = "return"
    /\ pc' = [pc EXCEPT ![t] = IF t = "main" THEN "serving" ELSE
                               IF t = "loop" THEN "sleep" ELSE "idle"]
    /\ batch' = [batch EXCEPT ![t] = ListVal(<<>>)]
    /\ UNCHANGED <<running, interval, real, current_hazards, hazard_history, histObj,
                   ref, tmp, failed, nextId, calls, log, snap, cleanVars, nlpVars>>

Body(t) ==
    \/ PipelineList(t)
    \/ PipelineNone(t)
    \/ PipelineRaise(t)
    \/ PipelineMock(t)
    \/ StoreCurrent(t)
    \/ LoadHist(t)
    \/ Extend(t)
    \/ CheckLen(t)
    \/ Slice(t)
    \/ StoreHist(t)
    \/ Except(t)
    \/ Return(t)

Lifecycle ==
    \/ Start
    \/ Stop
    \/ LoopTest
    \/ LoopSleep
    \/ LoopHandler
    \/ CallbackFire

Next ==
    \/ Lifecycle
    \/ \E t \in Threads : Begin(t) \/ Body(t)

Spec == Init /\ [][Next]_vars

SeqNext ==
    \/ Lifecycle
    \/ \E t \in Threads : SeqBegin(t) \/ Body(t)

SeqSpec == Init /\ [][SeqNext]_vars

(***************************************************************************)
(* StopSpec: the same program with few calls, under the scheduling the     *)
(* refresh thread gets: a thread that can take a step takes it in the end  *)
(* (time.sleep returns, the statements of a call finish).                  *)
(***************************************************************************)
MaxStopCalls == 1

\* Entering collect_and_analyze_data; the iteration the refresh loop is in
\* when stop() comes is let through whatever the number of calls so far.
StopBegin(t) ==
    /\ pc[t] = "begin"
    /\ calls < MaxStopCalls \/ (t = "loop" /\ ~running)
    /\ calls' = calls + 1
    /\ snap' = [cur |-> current_hazards, hist |-> hazard_history]
    /\ failed' = [failed EXCEPT ![t] = FALSE]
    /\ pc' = [pc EXCEPT ![t] = "pipeline"]
    /\ UNCHANGED <<running, interval, real, current_hazards, hazard_history, histObj,
                   batch, ref, tmp, nextId, log, cleanVars, nlpVars>>

\* The steps of the refresh thread.
LoopStep == LoopTest \/ LoopSleep \/ LoopHandler \/ StopBegin("loop") \/ Body("loop")

\* No browser is connected: the main thread and the refresh thread only.
StopNext ==
    \/ Start \/ Stop
    \/ LoopTest \/ LoopSleep \/ LoopHandler
    \/ \E t \in {"main", "loop"} : StopBegin(t) \/ Body(t)

StopSpec == Init /\ [][StopNext]_vars /\ WF_vars(LoopStep)

(***************************************************************************)
(* RaceSpec: two executions of collect_and_analyze_data side by side, one  *)
(* made by the refresh loop and one by the refresh_data callback, on a     *)
(* dashboard whose earlier calls have left some history.                   *)
(***************************************************************************)
\* Lengths of the history the earlier calls have left.
PriorLens == {0, BigBatch, HistoryCap}

RaceInit ==
    /\ running = TRUE
    /\ interval = "ok"
    /\ real \in BOOLEAN
    /\ current_hazards = ListVal(<<>>)
    /\ \E n \in PriorLens :
        /\ hazard_history = [i \in 1..n |-> i]
        /\ log = [i \in 1..n |-> i]
        /\ nextId = n + 1
    /\ histObj = 0
    /\ pc = [t \in Threads |-> IF t = "main" THEN "serving" ELSE "begin"]
    /\ batch = [t \in Threads |-> ListVal(<<>>)]
    /\ ref = [t \in Threads |-> 0]
    /\ tmp = [t \in Threads |-> <<>>]
    /\ failed = [t \in Threads |-> FALSE]
    /\ calls = 0
    /\ snap = [cur |-> ListVal(<<>>), hist |-> <<>>]
    /\ CleanIdle
    /\ NlpIdle

\* Each of the two threads makes its call; the loop then sleeps and the
\* callback replies.
RaceNext == \E t \in {"loop", "cb"} : Begin(t) \/ Body(t)

RaceSpec == RaceInit /\ [][RaceNext]_vars

(***************************************************************************)
(* RestartSpec: a client that calls start() and stop() one after the       *)
(* other.  Every start() makes a new thread object; a call of              *)
(* collect_and_analyze_data is one step here (its statements are above).   *)
(***************************************************************************)
MaxStarts == 2
MaxRuns == 2

\* The thread objects start() creates, in the order it creates them.
LoopNames == <<"loop", "loop2", "loop3">>
LoopThreads == {LoopNames[i] : i \in 1..MaxStarts}

\* Threads started so far, and self.refresh_thread: the last one (0: None).
Started == Cardinality({t \in LoopThreads : pc[t] # "unstarted"})
refresh_thread == Started

\* Thread.is_alive(): started and its target has not returned or raised.
LoopAlive(t) == pc[t] \in {"while", "begin", "sleep", "handler"}

RestartInit ==
    /\ running = FALSE
    /\ interval \in IntervalKinds
    /\ real \in BOOLEAN
    /\ current_hazards = ListVal(<<>>)
    /\ hazard_history = <<>>
    /\ histObj = 0
    /\ pc = [t \in {"main"} \cup LoopThreads |-> IF t = "main" THEN "idle" ELSE "unstarted"]
    /\ batch = [t \in Threads |-> ListVal(<<>>)]
    /\ ref = [t \in Threads |-> 0]
    /\ tmp = [t \in Threads |-> <<>>]
    /\ failed = [t \in Threads |-> FALSE]
    /\ nextId = 1
    /\ calls = 0
    /\ log = <<>>
    /\ snap = [cur |-> ListVal(<<>>), hist |-> <<>>]
    /\ CleanIdle
    /\ NlpIdle

\* A whole call of collect_and_analyze_data, run alone: it replaces the
\* current list and appends to the history, or fails and is logged.
RunCall(t, next) ==
    /\ calls' = calls + 1
    /\ \/ \E n \in (IF real THEN {0, SmallBatch} ELSE {MockBatch}) :
            /\ current_hazards' = NewCurrent(current_hazards, ListVal(NewReports(n)))
            /\ hazard_history' = Trimmed(Extended(hazard_history, NewReports(n)))
            /\ log' = log \o NewReports(n)
            /\ nextId' = nextId + n
       \/ /\ real
          /\ UNCHANGED <<current_hazards, hazard_history, log, nextId>>
    /\ pc' = [pc EXCEPT ![t] = next]
    /\ UNCHANGED <<running, interval, real, histObj, batch, ref, tmp, failed, snap,
                   cleanVars, nlpVars>>

\* start(), lines 546-549: the flag is set and a new thread is started.  The
\* client starts a dashboard that is not running: a new one or a stopped one.
RStart ==
    /\ pc["main"] = "idle"
    /\ ~running
    /\ Started < MaxStarts
    /\ running' = TRUE
    /\ pc' = [pc EXCEPT !["main"] = "collect", ![LoopNames[Started + 1]] = "while"]
    /\ UNCHANGED <<interval, real, current_hazards, hazard_history, histObj, batch,
                   ref, tmp, failed, nextId, calls, log, snap, cleanVars, nlpVars>>

\* start(), line 552: the initial collection.
RCollect ==
    /\ pc["main"] = "collect"
    /\ RunCall("main", "serving")

\* start(), line 556: run_server returns when the server is shut down.
RServerReturns ==
    /\ pc["main"] = "serving"
    /\ pc' = [pc EXCEPT !["main"] = "idle"]
    /\ UNCHANGED <<running, interval, real, current_hazards, hazard_history, histObj,
                   batch, ref, tmp, failed, nextId, calls, log, snap,
                   cleanVars, nlpVars>>

\* stop(), lines 560-561: the flag is cleared; a live refresh_thread is joined.
RStop ==
    /\ pc["main"] = "idle"
    /\ running
    /\ running' = FALSE
    /\ pc' = [pc EXCEPT !["main"] =
                IF refresh_thread # 0 /\ LoopAlive(LoopNames[refresh_thread])
                  THEN "joining" ELSE "idle"]
    /\ UNCHANGED <<interval, real, current_hazards, hazard_history, histObj, batch,
                   ref, tmp, failed, nextId, calls, log, snap, cleanVars, nlpVars>>

\* join(timeout=5.0), line 562: returns when the thread has ended, or after
\* five seconds of a thread that is still in its sleep.
RJoin ==
    /\ pc["main"] = "joining"
    /\ \/ ~LoopAlive(LoopNames[refresh_thread])
       \/ pc[LoopNames[refresh_thread]] \in {"sleep", "handler"}
    /\ pc' = [pc EXCEPT !["main"] = "idle"]
    /\ UNCHANGED <<running, interval, real, current_hazards, hazard_history, histObj,
                   batch, ref, tmp, failed, nextId, calls, log, snap,
                   cleanVars, nlpVars>>

\* while self.running:
RTest(t) ==
    /\ pc[t] = "while"
    /\ pc' = [pc EXCEPT ![t] = IF running THEN "begin" ELSE "exited"]
    /\ UNCHANGED <<running, interval, real, current_hazards, hazard_history, histObj,
                   batch, ref, tmp, failed, nextId, calls, log, snap,
                   cleanVars, nlpVars>>

\* self.collect_and_analyze_data(), line 569.
RRun(t) ==
    /\ pc[t] = "begin"
    /\ calls < MaxRuns
    /\ RunCall(t, "sleep")

\* time.sleep(self.refresh_interval), line 570.
RSleep(t) ==
    /\ pc[t] = "sleep"
    /\ pc' = [pc EXCEPT ![t] = IF SleepRaises(interval) THEN "handler" ELSE "while"]
    /\ UNCHANGED <<running, interval, real, current_hazards, hazard_history, histObj,
                   batch, ref, tmp, failed, nextId, calls, log, snap,
                   cleanVars, nlpVars>>

\* except: ... time.sleep(min(self.refresh_interval, 10)), lines 571-573.
RHandler(t) ==
    /\ pc[t] = "handler"
    /\ pc' = [pc EXCEPT ![t] = IF BackoffRaises(interval) THEN "crashed" ELSE "while"]
    /\ UNCHANGED <<running, interval, real, current_hazards, hazard_history, histObj,
                   batch, ref, tmp, failed, nextId, calls, log, snap,
                   cleanVars, nlpVars>>

RestartNext ==
    \/ RStart \/ RCollect \/ RServerReturns \/ RStop \/ RJoin
    \/ \E t \in LoopThreads : RTest(t) \/ RRun(t) \/ RSleep(t) \/ RHandler(t)

RestartSpec == RestartInit /\ [][RestartNext]_vars

(***************************************************************************)
(* NLPProcessor.clean_text (nlp_processor.py).  A str is the sequence of   *)
(* its characters; a character is a one-character string.                  *)
(***************************************************************************)

\* Python values passed as `text`: a str, None, or a value of another type
\* whose truth value is True (5), False (0, []) or raises (a numpy array of
\* several elements, pandas.NA: __bool__ raises).
StrVal(s) == [kind |-> "str", chars |-> s]
NoneText == [kind |-> "none", chars |-> <<>>]
TruthyObj == [kind |-> "truthy", chars |-> <<>>]
FalsyObj == [kind |-> "falsy", chars |-> <<>>]
AmbiguousObj == [kind |-> "ambiguous", chars |-> <<>>]

\* bool(text): "raise" when __bool__ raises.
Truth(v) ==
    IF v.kind = "ambiguous" THEN "raise"
    ELSE IF v.kind = "truthy" \/ (v.kind = "str" /\ v.chars # <<>>) THEN "true"
    ELSE "false"

\* `not text or not isinstance(text, str)`: the truth value is taken first.
Guard(v) ==
    IF Truth(v) = "raise" THEN "raise"
    ELSE IF Truth(v) = "false" \/ v.kind # "str" THEN "reject"
    ELSE "pass"

UpperChars == <<"A","B","C","D","E","F","G","H","I","J","K","L","M",
                "N","O","P","Q","R","S","T","U","V","W","X","Y","Z">>
LowerChars == <<"a","b","c","d","e","f","g","h","i","j","k","l","m",
                "n","o","p","q","r","s","t","u","v","w","x","y","z">>
DigitChars == {"0","1","2","3","4","5","6","7","8","9"}
\* string.punctuation (less the backquote, which a TLA+ string cannot hold and
\* no text of the model contains).
PunctChars == {"!","\"","#","$","%","&","'","(",")","*","+",",","-",".","/",
               ":",";","<","=",">","?","@","[","\\","]","^","_","{","|",
               "}","~"}
SpaceChars == {" ", "\t", "\n"}

IsSpace(c) == c \in SpaceChars                       \* \s
IsDigit(c) == c \in DigitChars                       \* \d
IsPunct(c) == c \in PunctChars
IsWordChar(c) == ~IsSpace(c) /\ (~IsPunct(c) \/ c = "_")   \* \w

LowerChar(c) ==
    IF \E i \in 1..Len(UpperChars) : UpperChars[i] = c
      THEN LowerChars[CHOOSE i \in 1..Len(UpperChars) : UpperChars[i] = c]
      ELSE c

\* text.lower()
Lower(s) == [i \in 1..Len(s) |-> LowerChar(s[i])]

\* s has p at position i.
HasAt(s, i, p) ==
    /\ i + Len(p) - 1 <= Len(s)
    /\ \A k \in 1..Len(p) : s[i + k - 1] = p[k]

\* The first position from i on that holds a whitespace character (or
\* Len(s)+1): the end of a greedy \S+ started at i.
RECURSIVE NonSpaceEnd(_, _)
NonSpaceEnd(s, i) ==
    IF i > Len(s) \/ IsSpace(s[i]) THEN i ELSE NonSpaceEnd(s, i + 1)

\* The same for a greedy \w+.
RECURSIVE WordEnd(_, _)
WordEnd(s, i) ==
    IF i > Len(s) \/ ~IsWordChar(s[i]) THEN i ELSE WordEnd(s, i + 1)

\* Where a match of http\S+|www\S+|https\S+ that starts at i ends (exclusive),
\* or 0: the alternatives are tried in order, each needs one \S at least.
UrlEnd(s, i) ==
    IF HasAt(s, i, <<"h","t","t","p">>) /\ NonSpaceEnd(s, i + 4) > i + 4
      THEN NonSpaceEnd(s, i + 4)
    ELSE IF HasAt(s, i, <<"w","w","w">>) /\ NonSpaceEnd(s, i + 3) > i + 3
      THEN NonSpaceEnd(s, i + 3)
    ELSE IF HasAt(s, i, <<"h","t","t","p","s">>) /\ NonSpaceEnd(s, i + 5) > i + 5
      THEN NonSpaceEnd(s, i + 5)
    ELSE 0

\* re.sub(r'http\S+|www\S+|https\S+', '', text), scanning from position i.
RECURSIVE RemoveUrlsFrom(_, _)
RemoveUrlsFrom(s, i) ==
    IF i > Len(s) THEN <<>>
    ELSE IF UrlEnd(s, i) # 0 THEN RemoveUrlsFrom(s, UrlEnd(s, i))
    ELSE <<s[i]>> \o RemoveUrlsFrom(s, i + 1)

RemoveUrls(s) == RemoveUrlsFrom(s, 1)

\* re.sub(r'@\w+', '', text), scanning from position i.
RECURSIVE RemoveMentionsFrom(_, _)
RemoveMentionsFrom(s, i) ==
    IF i > Len(s) THEN <<>>
    ELSE IF s[i] = "@" /\ WordEnd(s, i + 1) > i + 1
      THEN RemoveMentionsFrom(s, WordEnd(s, i + 1))
    ELSE <<s[i]>> \o RemoveMentionsFrom(s, i + 1)

RemoveMentions(s) == RemoveMentionsFrom(s, 1)

\* re.sub(r'#([^\s]+)', r'\1', text), scanning from position i: the # goes,
\* the run after it stays as it is.
RECURSIVE UnwrapHashtagsFrom(_, _)
UnwrapHashtagsFrom(s, i) ==
    IF i > Len(s) THEN <<>>
    ELSE IF s[i] = "#" /\ NonSpaceEnd(s, i + 1) > i + 1
      THEN SubSeq(s, i + 1, NonSpaceEnd(s, i + 1) - 1)
             \o UnwrapHashtagsFrom(s, NonSpaceEnd(s, i + 1))
    ELSE <<s[i]>> \o UnwrapHashtagsFrom(s, i + 1)

UnwrapHashtags(s) == UnwrapHashtagsFrom(s, 1)

\* text.translate(str.maketrans('', '', string.punctuation))
RemovePunctuation(s) == SelectSeq(s, LAMBDA c : ~IsPunct(c))

\* re.sub(r'\d+', '', text)
RemoveDigits(s) == SelectSeq(s, LAMBDA c : ~IsDigit(c))

\* re.sub(r'\s+', ' ', text): every run of whitespace becomes one space.
RECURSIVE CollapseFrom(_, _)
CollapseFrom(s, i) ==
    IF i > Len(s) THEN <<>>
    ELSE IF IsSpace(s[i])
      THEN IF i > 1 /\ IsSpace(s[i - 1]) THEN CollapseFrom(s, i + 1)
           ELSE <<" ">> \o CollapseFrom(s, i + 1)
    ELSE <<s[i]>> \o CollapseFrom(s, i + 1)

\* .strip(), after the collapse: at most one space at either end.
Strip(s) ==
    LET a == IF s # <<>> /\ IsSpace(s[1]) THEN Tail(s) ELSE s
    IN  IF a # <<>> /\ IsSpace(a[Len(a)]) THEN SubSeq(a, 1, Len(a) - 1) ELSE a

CollapseWhitespace(s) == Strip(CollapseFrom(s, 1))

\* The body of clean_text's try, for a str.
CleanChars(s) ==
    CollapseWhitespace(RemoveDigits(RemovePunctuation(
        UnwrapHashtags(RemoveMentions(RemoveUrls(Lower(s)))))))

\* clean_text(text): what it returns, or that it raises (the guard is outside
\* the try).
clean_text(v) ==
    IF Guard(v) = "raise" THEN [raised |-> TRUE, val |-> <<>>]
    ELSE IF Guard(v) = "reject" THEN [raised |-> FALSE, val |-> <<>>]
    ELSE [raised |-> FALSE, val |-> CleanChars(v.chars)]

(***************************************************************************)
(* CleanSpec: clean_text applied to a text, then to its own result.        *)
(***************************************************************************)
MaxTextLen == 5
CleanAlphabet == {"W", "w", "h", "t", "p", ".", "@", "#", "1", " "}
Texts == UNION {[1..n -> CleanAlphabet] : n \in 0..MaxTextLen}

\* The dashboard as constructed by OceanHazardDashboard(), never started.
DashIdle == DashInit /\ interval = "ok" /\ ~real

CleanInit ==
    /\ DashIdle
    /\ NlpIdle
    /\ text \in Texts
    /\ cleaned = <<>>
    /\ recleaned = <<>>
    /\ cpc = "start"

CleanOnce ==
    /\ cpc = "start"
    /\ cleaned' = clean_text(StrVal(text)).val
    /\ cpc' = "once"
    /\ UNCHANGED <<text, recleaned, dashVars, nlpVars>>

CleanTwice ==
    /\ cpc = "once"
    /\ recleaned' = clean_text(StrVal(cleaned)).val
    /\ cpc' = "twice"
    /\ UNCHANGED <<text, cleaned, dashVars, nlpVars>>

CleanNext == CleanOnce \/ CleanTwice

CleanSpec == CleanInit /\ [][CleanNext]_vars

(***************************************************************************)
(* The rest of NLPProcessor: tokenizing, stop words, lemmas, keywords,     *)
(* sentiment, preprocess_text and process_batch.                           *)
(***************************************************************************)

\* What the processor was left with by __init__ and what the libraries do:
\*   initOk  __init__ ran to its end; otherwise its except clause left
\*           stop_words empty and lemmatizer None, and sentiment_tokenizer
\*           and sentiment_model were never assigned;
\*   tokOk   word_tokenize works (it raises LookupError without its data);
\*   scorer  "ok", "raises" (the tokenizer or the model call raises) or
\*           "missing" (never assigned);
\*   probs   the scorer's (negative, positive) output, in thousandths.
ProbPairs == {<<900, 100>>, <<100, 900>>, <<500, 500>>}
Envs ==
    {e \in [initOk : BOOLEAN, tokOk : BOOLEAN,
            scorer : {"ok", "raises", "missing"}, probs : ProbPairs] :
        /\ (e.scorer = "missing") <=> ~e.initOk
        /\ e.scorer # "ok" => e.probs = <<900, 100>>}

\* stopwords.words('english'), as far as the texts of the model go.
StopWords == {<<"t","h","e">>, <<"a">>, <<"i","s">>, <<"i","n">>}
stop_words(e) == IF e.initOk THEN StopWords ELSE {}

\* WordNetLemmatizer.lemmatize(token), as far as the texts of the model go: a
\* word WordNet does not know comes back unchanged.
Lemma(tok) ==
    IF tok = <<"s","e","a","s">> THEN <<"s","e","a">>
    ELSE IF tok = <<"w","a","v","e","s">> THEN <<"w","a","v","e">>
    ELSE tok

\* The words of s, split at whitespace, from position i with word w begun.
RECURSIVE SplitFrom(_, _, _)
SplitFrom(s, i, w) ==
    IF i > Len(s) THEN (IF w = <<>> THEN <<>> ELSE <<w>>)
    ELSE IF IsSpace(s[i])
      THEN (IF w = <<>> THEN <<>> ELSE <<w>>) \o SplitFrom(s, i + 1, <<>>)
    ELSE SplitFrom(s, i + 1, Append(w, s[i]))

\* word_tokenize on a cleaned text (letters and single spaces).
word_tokenize(s) == SplitFrom(s, 1, <<>>)

\* tokenize_text(text) for a str: [] for the empty one and when word_tokenize
\* raises.
tokenize_text(s, e) ==
    IF s = <<>> THEN <<>>
    ELSE IF ~e.tokOk THEN <<>>
    ELSE word_tokenize(s)

\* remove_stopwords(tokens)
remove_stopwords(toks, e) ==
    IF toks = <<>> THEN <<>>
    ELSE SelectSeq(toks, LAMBDA t : t \notin stop_words(e))

\* lemmatize_tokens(tokens): the tokens themselves without a lemmatizer.
lemmatize_tokens(toks, e) ==
    IF toks = <<>> \/ ~e.initOk THEN toks
    ELSE [i \in 1..Len(toks) |-> Lemma(toks[i])]

\* " ".join(tokens)
RECURSIVE JoinWords(_)
JoinWords(toks) ==
    IF toks = <<>> THEN <<>>
    ELSE IF Len(toks) = 1 THEN toks[1]
    ELSE toks[1] \o <<" ">> \o JoinWords(Tail(toks))

\* preprocess_text(text): every step is inside its try, so an exception of
\* clean_text leaves the result at its defaults, without processed_text.
preprocess_text(v, e) ==
    LET c == clean_text(v)
        toks == tokenize_text(c.val, e)
        nostop == remove_stopwords(toks, e)
        lem == lemmatize_tokens(nostop, e)
    IN  IF c.raised
          THEN [raised |-> FALSE, original_text |-> v, cleaned_text |-> <<>>,
                tokens |-> <<>>, tokens_no_stopwords |-> <<>>,
                lemmatized_tokens |-> <<>>, has_processed_text |-> FALSE,
                processed_text |-> <<>>]
          ELSE [raised |-> FALSE, original_text |-> v, cleaned_text |-> c.val,
                tokens |-> toks, tokens_no_stopwords |-> nostop,
                lemmatized_tokens |-> lem, has_processed_text |-> TRUE,
                processed_text |-> JoinWords(lem)]

\* The keys of word_freq in insertion order: the tokens longer than 2, each
\* at its first occurrence.
RECURSIVE FreqKeys(_, _)
FreqKeys(toks, seen) ==
    IF toks = <<>> THEN <<>>
    ELSE IF Len(Head(toks)) > 2 /\ Head(toks) \notin seen
      THEN <<Head(toks)>> \o FreqKeys(Tail(toks), seen \cup {Head(toks)})
    ELSE FreqKeys(Tail(toks), seen)

Occurrences(toks, w) == Cardinality({i \in 1..Len(toks) : toks[i] = w})

\* word_freq.items()
FreqItems(toks) ==
    LET ks == FreqKeys(toks, {})
    IN  [i \in 1..Len(ks) |-> [keyword |-> ks[i], frequency |-> Occurrences(toks, ks[i])]]

\* A sort that is not stable: x goes in front of the items as frequent as x.
RECURSIVE InsertByFreq_Unstable(_, _)
InsertByFreq_Unstable(s, x) ==
    IF s = <<>> THEN <<x>>
    ELSE IF Head(s).frequency > x.frequency
      THEN <<Head(s)>> \o InsertByFreq_Unstable(Tail(s), x)
    ELSE <<x>> \o s

\* Insert item x into the sorted list s behind every item at least as frequent.
RECURSIVE InsertByFreq(_, _)
InsertByFreq(s, x) ==
    IF s = <<>> THEN <<x>>
    ELSE IF Head(s).frequency >= x.frequency THEN <<Head(s)>> \o InsertByFreq(Tail(s), x)
    ELSE <<x>> \o s

\* sorted(items, key=lambda x: x[1], reverse=True): stable.
RECURSIVE SortByFreq(_)
SortByFreq(items) ==
    IF items = <<>> THEN <<>>
    ELSE InsertByFreq(SortByFreq(SubSeq(items, 1, Len(items) - 1)), items[Len(items)])

\* s[:n]
PrefixSlice(s, n) ==
    IF n >= Len(s) THEN s
    ELSE IF n >= 0 THEN SubSeq(s, 1, n)
    ELSE IF Len(s) + n <= 0 THEN <<>>
    ELSE SubSeq(s, 1, Len(s) + n)

DefaultTopN == 5

\* extract_keywords(text, top_n): the guard is outside the try.
extract_keywords(v, e, top_n) ==
    IF Guard(v) = "raise" THEN [raised |-> TRUE, val |-> <<>>]
    ELSE IF Guard(v) = "reject" THEN [raised |-> FALSE, val |-> <<>>]
    ELSE [raised |-> FALSE,
          val |-> PrefixSlice(SortByFreq(FreqItems(preprocess_text(v, e).lemmatized_tokens)),
                              top_n)]

\* A default whose probabilities do not add up to one.
DefaultSentiment_Zero == [negative |-> 0, positive |-> 0, label |-> "negative"]

\* The value analyze_sentiment returns for an empty text and from its except
\* clause, in thousandths.
DefaultSentiment == [negative |-> 1000, positive |-> 0, label |-> "negative"]

\* A label decided by a comparison that is not strict.
SentimentLabel_NonStrict(neg, pos) == IF pos >= neg THEN "positive" ELSE "negative"

\* "positive" if probabilities[1] > probabilities[0] else "negative"
SentimentLabel(neg, pos) == IF pos > neg THEN "positive" ELSE "negative"

\* analyze_sentiment(text): the guard is outside the try.
analyze_sentiment(v, e) ==
    IF Guard(v) = "raise" THEN [raised |-> TRUE, val |-> DefaultSentiment]
    ELSE IF Guard(v) = "reject" THEN [raised |-> FALSE, val |-> DefaultSentiment]
    ELSE IF e.scorer # "ok" THEN [raised |-> FALSE, val |-> DefaultSentiment]
    ELSE [raised |-> FALSE,
          val |-> [negative |-> e.probs[1], positive |-> e.probs[2],
                   label |-> SentimentLabel(e.probs[1], e.probs[2])]]

(***************************************************************************)
(* NlpSpec: process_batch over a list of text values, one loop iteration   *)
(* a step, and direct calls of clean_text and preprocess_text.             *)
(***************************************************************************)
MaxBatch == 2

SampleText == <<"T","h","e"," ","s","e","a","s",","," ","s","e","a","s"," ",
                "r","i","s","e","!">>
TextValues == {StrVal(SampleText), StrVal(<<>>), NoneText, TruthyObj, FalsyObj,
               AmbiguousObj}
Batches == UNION {[1..n -> TextValues] : n \in 0..MaxBatch}

NlpInit ==
    /\ DashIdle
    /\ CleanIdle
    /\ env \in Envs
    /\ texts \in Batches
    /\ bi = 0
    /\ results = <<>>
    /\ bout = <<>>
    /\ bpc = "start"
    /\ probe = [done |-> FALSE]

\* if not texts or not isinstance(texts, list): return []; else results = []
\* and the loop begins.
BatchEnter ==
    /\ bpc = "start"
    /\ IF texts = <<>>
         THEN /\ bpc' = "done"
              /\ bi' = bi
         ELSE /\ bpc' = "loop"
              /\ bi' = 1
    /\ UNCHANGED <<env, texts, results, bout, probe, dashVars, cleanVars>>

\* The dict appended for one text.
BatchEntry(v, e) ==
    [pre |-> preprocess_text(v, e),
     keywords |-> extract_keywords(v, e, DefaultTopN).val,
     sentiment |-> analyze_sentiment(v, e).val]

\* An exception reaches the try of process_batch while it handles v.
ItemRaises(v, e) ==
    \/ preprocess_text(v, e).raised
    \/ extract_keywords(v, e, DefaultTopN).raised
    \/ analyze_sentiment(v, e).raised

\* One iteration of `for text in texts`: the result is appended, or the
\* exception ends the function in its except clause, which returns [].
BatchItem ==
    /\ bpc = "loop"
    /\ bi <= Len(texts)
    /\ IF ItemRaises(texts[bi], env)
         THEN /\ bout' = <<>>
              /\ bpc' = "done"
              /\ UNCHANGED <<results, bi>>
         ELSE /\ results' = Append(results, BatchEntry(texts[bi], env))
              /\ bi' = bi + 1
              /\ UNCHANGED <<bout, bpc>>
    /\ UNCHANGED <<env, texts, probe, dashVars, cleanVars>>

\* return results
BatchReturn ==
    /\ bpc = "loop"
    /\ bi > Len(texts)
    /\ bout' = results
    /\ bpc' = "done"
    /\ UNCHANGED <<env, texts, bi, results, probe, dashVars, cleanVars>>

\* A caller applies clean_text, preprocess_text and analyze_sentiment to one
\* value.
Probe ==
    /\ ~probe.done
    /\ \E v \in TextValues :
         probe' = [done |-> TRUE, arg |-> v, clean |-> clean_text(v),
                   pre |-> preprocess_text(v, env),
                   sent |-> analyze_sentiment(v, env)]
    /\ UNCHANGED <<env, texts, bi, results, bout, bpc, dashVars, cleanVars>>

NlpNext == BatchEnter \/ BatchItem \/ BatchReturn \/ Probe

NlpSpec == NlpInit /\ [][NlpNext]_vars

(***************************************************************************)
(* KwSpec: extract_keywords applied to a text made of a few words, with    *)
(* every top_n of a small range.                                           *)
(***************************************************************************)
MaxWords == 4
MaxTopN == 3

\* The words the texts are made of: two forms of one lemma (one capitalised,
\* one with punctuation), a second lemma, a two-letter word and a stop word.
KwWords == {<<"S","e","a","s">>, <<"s","e","a",",">>, <<"r","i","s","e">>,
            <<"o","x">>, <<"t","h","e">>}
KwTexts == {JoinWords(ws) : ws \in UNION {[1..n -> KwWords] : n \in 0..MaxWords}}

\* The processors that differ for extract_keywords: built or not, tokenizer
\* data present or not.
KwEnvs == {e \in Envs : e.scorer # "ok"}

KwInit ==
    /\ DashIdle
    /\ CleanIdle
    /\ env \in KwEnvs
    /\ texts \in {<<StrVal(t)>> : t \in KwTexts}
    /\ bi = 0
    /\ results = <<>>
    /\ bout = <<>>
    /\ bpc = "off"
    /\ probe = [done |-> FALSE]

\* A caller applies extract_keywords(text, top_n); the lemma sequence the
\* function counted is recorded beside its result.
KwExtract ==
    /\ ~probe.done
    /\ \E n \in 0..MaxTopN :
         probe' = [done |-> TRUE, arg |-> texts[1], top_n |-> n,
                   lemmas |-> preprocess_text(texts[1], env).lemmatized_tokens,
                   kw |-> extract_keywords(texts[1], env, n)]
    /\ UNCHANGED <<env, texts, bi, results, bout, bpc, dashVars, cleanVars>>

KwNext == KwExtract

KwSpec == KwInit /\ [][KwNext]_vars

(***************************************************************************)
(* HazardDetector (nlp_analytics/hazard_detector.py).  The source holds    *)
(* __init__ with the pattern tables; the methods that apply them are not   *)
(* in it and are modelled from the specification's sections 4.3 and 4.4.   *)
(***************************************************************************)

\* The regular expressions of the tables are sequences of these elements; an
\* element matches one of its alternatives a, or a run of whitespace.
Lit(s) == [t |-> "lit", a |-> <<s>>]              \* the characters s
Opt(s) == [t |-> "opt", a |-> <<s, <<>>>>]        \* (s)? and c?
Alt(x, y) == [t |-> "alt", a |-> <<x, y>>]        \* (x|y)
Ws == [t |-> "ws", a |-> <<>>]                    \* \s*

\* hazard_patterns["flood"]
flood_patterns ==
    <<
      \* flood(ing)?
      <<Lit(<<"f","l","o","o","d">>), Opt(<<"i","n","g">>)>>,
      \* water level(s)? rise
      <<Lit(<<"w","a","t","e","r"," ","l","e","v","e","l">>), Opt(<<"s">>),
        Lit(<<" ","r","i","s","e">>)>>,
      \* submerged
      <<Lit(<<"s","u","b","m","e","r","g","e","d">>)>>,
      \* inundat(e|ion)
      <<Lit(<<"i","n","u","n","d","a","t">>), Alt(<<"e">>, <<"i","o","n">>)>>
    >>

\* hazard_patterns["storm_surge"]
storm_surge_patterns ==
    <<
      \* storm\s*surge
      <<Lit(<<"s","t","o","r","m">>), Ws, Lit(<<"s","u","r","g","e">>)>>,
      \* surge\s*warning
      <<Lit(<<"s","u","r","g","e">>), Ws, Lit(<<"w","a","r","n","i","n","g">>)>>,
      \* coastal\s*surge
      <<Lit(<<"c","o","a","s","t","a","l">>), Ws, Lit(<<"s","u","r","g","e">>)>>,
      \* sea\s*level\s*rise
      <<Lit(<<"s","e","a">>), Ws, Lit(<<"l","e","v","e","l">>), Ws, Lit(<<"r","i","s","e">>)>>
    >>

\* hazard_patterns["tsunami"]
tsunami_patterns ==
    <<
      \* tsunami
      <<Lit(<<"t","s","u","n","a","m","i">>)>>,
      \* tidal\s*wave
      <<Lit(<<"t","i","d","a","l">>), Ws, Lit(<<"w","a","v","e">>)>>,
      \* seismic\s*sea\s*wave
      <<Lit(<<"s","e","i","s","m","i","c">>), Ws, Lit(<<"s","e","a">>), Ws,
        Lit(<<"w","a","v","e">>)>>
    >>

\* hazard_patterns["high_waves"]
high_waves_patterns ==
    <<
      \* high\s*waves?
      <<Lit(<<"h","i","g","h">>), Ws, Lit(<<"w","a","v","e">>), Opt(<<"s">>)>>,
      \* large\s*waves?
      <<Lit(<<"l","a","r","g","e">>), Ws, Lit(<<"w","a","v","e">>), Opt(<<"s">>)>>,
      \* dangerous\s*waves?
      <<Lit(<<"d","a","n","g","e","r","o","u","s">>), Ws, Lit(<<"w","a","v","e">>),
        Opt(<<"s">>)>>,
      \* rough\s*seas?
      <<Lit(<<"r","o","u","g","h">>), Ws, Lit(<<"s","e","a">>), Opt(<<"s">>)>>,
      \* wave\s*height
      <<Lit(<<"w","a","v","e">>), Ws, Lit(<<"h","e","i","g","h","t">>)>>
    >>

\* hazard_patterns["erosion"]
erosion_patterns ==
    <<
      \* erosion
      <<Lit(<<"e","r","o","s","i","o","n">>)>>,
      \* coastal\s*erosion
      <<Lit(<<"c","o","a","s","t","a","l">>), Ws, Lit(<<"e","r","o","s","i","o","n">>)>>,
      \* beach\s*loss
      <<Lit(<<"b","e","a","c","h">>), Ws, Lit(<<"l","o","s","s">>)>>,
      \* shoreline\s*retreat
      <<Lit(<<"s","h","o","r","e","l","i","n","e">>), Ws, Lit(<<"r","e","t","r","e","a","t">>)>>
    >>

\* hazard_patterns["marine_pollution"]
marine_pollution_patterns ==
    <<
      \* oil\s*spill
      <<Lit(<<"o","i","l">>), Ws, Lit(<<"s","p","i","l","l">>)>>,
      \* pollut(e|ion)
      <<Lit(<<"p","o","l","l","u","t">>), Alt(<<"e">>, <<"i","o","n">>)>>,
      \* contaminat(e|ion)
      <<Lit(<<"c","o","n","t","a","m","i","n","a","t">>), Alt(<<"e">>, <<"i","o","n">>)>>,
      \* marine\s*debris
      <<Lit(<<"m","a","r","i","n","e">>), Ws, Lit(<<"d","e","b","r","i","s">>)>>,
      \* plastic\s*waste
      <<Lit(<<"p","l","a","s","t","i","c">>), Ws, Lit(<<"w","a","s","t","e">>)>>
    >>

\* hazard_patterns["harmful_algal_bloom"]
harmful_algal_bloom_patterns ==
    <<
      \* harmful\s*algal\s*bloom
      <<Lit(<<"h","a","r","m","f","u","l">>), Ws, Lit(<<"a","l","g","a","l">>), Ws,
        Lit(<<"b","l","o","o","m">>)>>,
      \* red\s*tide
      <<Lit(<<"r","e","d">>), Ws, Lit(<<"t","i","d","e">>)>>,
      \* blue\s*tide
      <<Lit(<<"b","l","u","e">>), Ws, Lit(<<"t","i","d","e">>)>>,
      \* algal\s*bloom
      <<Lit(<<"a","l","g","a","l">>), Ws, Lit(<<"b","l","o","o","m">>)>>
    >>

\* hazard_patterns["coastal_storm"]
coastal_storm_patterns ==
    <<
      \* coastal\s*storm
      <<Lit(<<"c","o","a","s","t","a","l">>), Ws, Lit(<<"s","t","o","r","m">>)>>,
      \* tropical\s*storm
      <<Lit(<<"t","r","o","p","i","c","a","l">>), Ws, Lit(<<"s","t","o","r","m">>)>>,
      \* hurricane
      <<Lit(<<"h","u","r","r","i","c","a","n","e">>)>>,
      \* typhoon
      <<Lit(<<"t","y","p","h","o","o","n">>)>>,
      \* cyclone
      <<Lit(<<"c","y","c","l","o","n","e">>)>>
    >>

\* self.hazard_patterns, keyed by hazard type in the order of the dict.
HazardTypes == <<"flood", "storm_surge", "tsunami", "high_waves", "erosion", "marine_pollution", "harmful_algal_bloom", "coastal_storm">>

\* A table whose high_waves entry was copied from the tsunami one.
hazard_patterns_CopiedEntry ==
    [flood |-> flood_patterns,
     storm_surge |-> storm_surge_patterns,
     tsunami |-> tsunami_patterns,
     high_waves |-> tsunami_patterns,
     erosion |-> erosion_patterns,
     marine_pollution |-> marine_pollution_patterns,
     harmful_algal_bloom |-> harmful_algal_bloom_patterns,
     coastal_storm |-> coastal_storm_patterns]

\* self.hazard_patterns
hazard_patterns ==
    [flood |-> flood_patterns,
     storm_surge |-> storm_surge_patterns,
     tsunami |-> tsunami_patterns,
     high_waves |-> high_waves_patterns,
     erosion |-> erosion_patterns,
     marine_pollution |-> marine_pollution_patterns,
     harmful_algal_bloom |-> harmful_algal_bloom_patterns,
     coastal_storm |-> coastal_storm_patterns]

\* severity_indicators["high"]
high_indicators ==
    <<
      \* major
      <<Lit(<<"m","a","j","o","r">>)>>,
      \* severe
      <<Lit(<<"s","e","v","e","r","e">>)>>,
      \* catastrophic
      <<Lit(<<"c","a","t","a","s","t","r","o","p","h","i","c">>)>>,
      \* dangerous
      <<Lit(<<"d","a","n","g","e","r","o","u","s">>)>>,
      \* urgent
      <<Lit(<<"u","r","g","e","n","t">>)>>,
      \* emergency
      <<Lit(<<"e","m","e","r","g","e","n","c","y">>)>>,
      \* critical
      <<Lit(<<"c","r","i","t","i","c","a","l">>)>>,
      \* extreme
      <<Lit(<<"e","x","t","r","e","m","e">>)>>,
      \* life-threatening
      <<Lit(<<"l","i","f","e","-","t","h","r","e","a","t","e","n","i","n","g">>)>>,
      \* evacuation
      <<Lit(<<"e","v","a","c","u","a","t","i","o","n">>)>>,
      \* damage
      <<Lit(<<"d","a","m","a","g","e">>)>>,
      \* destroy
      <<Lit(<<"d","e","s","t","r","o","y">>)>>,
      \* collapse
      <<Lit(<<"c","o","l","l","a","p","s","e">>)>>,
      \* injured
      <<Lit(<<"i","n","j","u","r","e","d">>)>>,
      \* casualty
      <<Lit(<<"c","a","s","u","a","l","t","y">>)>>,
      \* fatal
      <<Lit(<<"f","a","t","a","l">>)>>
    >>

\* severity_indicators["medium"]
medium_indicators ==
    <<
      \* moderate
      <<Lit(<<"m","o","d","e","r","a","t","e">>)>>,
      \* significant
      <<Lit(<<"s","i","g","n","i","f","i","c","a","n","t">>)>>,
      \* noticeable
      <<Lit(<<"n","o","t","i","c","e","a","b","l","e">>)>>,
      \* concerning
      <<Lit(<<"c","o","n","c","e","r","n","i","n","g">>)>>,
      \* warning
      <<Lit(<<"w","a","r","n","i","n","g">>)>>,
      \* alert
      <<Lit(<<"a","l","e","r","t">>)>>,
      \* precautionary
      <<Lit(<<"p","r","e","c","a","u","t","i","o","n","a","r","y">>)>>,
      \* potential
      <<Lit(<<"p","o","t","e","n","t","i","a","l">>)>>,
      \* possible
      <<Lit(<<"p","o","s","s","i","b","l","e">>)>>,
      \* expected
      <<Lit(<<"e","x","p","e","c","t","e","d">>)>>
    >>

\* severity_indicators["low"]
low_indicators ==
    <<
      \* minor
      <<Lit(<<"m","i","n","o","r">>)>>,
      \* slight
      <<Lit(<<"s","l","i","g","h","t">>)>>,
      \* mild
      <<Lit(<<"m","i","l","d">>)>>,
      \* small
      <<Lit(<<"s","m","a","l","l">>)>>,
      \* observation
      <<Lit(<<"o","b","s","e","r","v","a","t","i","o","n">>)>>,
      \* monitoring
      <<Lit(<<"m","o","n","i","t","o","r","i","n","g">>)>>,
      \* update
      <<Lit(<<"u","p","d","a","t","e">>)>>,
      \* information
      <<Lit(<<"i","n","f","o","r","m","a","t","i","o","n">>)>>
    >>

\* A table with the lists of the high and the low tier exchanged.
severity_indicators_Swapped ==
    [high |-> low_indicators, medium |-> medium_indicators, low |-> high_indicators]

\* A table that lost the list of its high tier.
severity_indicators_HighDropped ==
    [high |-> <<>>, medium |-> medium_indicators, low |-> low_indicators]

\* self.severity_indicators
severity_indicators ==
    [high |-> high_indicators, medium |-> medium_indicators, low |-> low_indicators]

\* The elements of pat from the k-th on match s at position i.
RECURSIVE MatchFrom(_, _, _, _)
MatchFrom(pat, k, s, i) ==
    IF k > Len(pat) THEN TRUE
    ELSE IF pat[k].t = "ws"
      THEN \E j \in i..(Len(s) + 1) :
             /\ \A m \in i..(j - 1) : IsSpace(s[m])
             /\ MatchFrom(pat, k + 1, s, j)
    ELSE \E x \in 1..Len(pat[k].a) :
             /\ HasAt(s, i, pat[k].a[x])
             /\ MatchFrom(pat, k + 1, s, i + Len(pat[k].a[x]))

\* re.search(pat, s) finds a match.
re_search(pat, s) == \E i \in 1..(Len(s) + 1) : MatchFrom(pat, 1, s, i)

\* One of the patterns of the list matches s, case-insensitively (the patterns
\* are lower-case).
AnyMatches(pats, s) ==
    LET low == Lower(s)
    IN  \E k \in 1..Len(pats) : re_search(pats[k], low)

\* The hazard types with a matching pattern: all of them are tagged.
MatchedHazards(s) ==
    {HazardTypes[n] : n \in {m \in 1..Len(HazardTypes) :
                               AnyMatches(hazard_patterns[HazardTypes[m]], s)}}

\* Severity resolution: the three tiers are scanned and the highest tier with
\* a matching indicator wins.
ResolveSeverity(s) ==
    IF AnyMatches(severity_indicators.high, s) THEN "high"
    ELSE IF AnyMatches(severity_indicators.medium, s) THEN "medium"
    ELSE IF AnyMatches(severity_indicators.low, s) THEN "low"
    ELSE "unknown"

\* classify(raw_text): a text that is missing, None, not a string or empty
\* gives the safe defaults.
classify(v) ==
    IF v.kind # "str" \/ v.chars = <<>>
      THEN [hazards |-> {}, severity |-> "unknown"]
      ELSE [hazards |-> MatchedHazards(v.chars), severity |-> ResolveSeverity(v.chars)]

(***************************************************************************)
(* ClassSpec: the classifier applied to one text.                          *)
(***************************************************************************)
MaxClassWords == 3

ClassWords == {<<"M","a","j","o","r">>,
               <<"f","l","o","o","d","i","n","g">>,
               <<"d","a","n","g","e","r","o","u","s">>,
               <<"w","a","v","e","s">>,
               <<"m","i","n","o","r">>,
               <<"w","a","r","n","i","n","g">>,
               <<"s","u","r","g","e">>}

\* The texts of the specification's two classification examples.
CompoundExample ==
    <<"M","a","j","o","r"," ","f","l","o","o","d","i","n","g"," ","a","n","d">> \o
    <<" ","d","a","n","g","e","r","o","u","s"," ","w","a","v","e","s">>
LowExample ==
    <<"m","i","n","o","r"," ","u","p","d","a","t","e"," ","o","n">> \o
    <<" ","b","e","a","c","h"," ","c","o","n","d","i","t","i","o","n","s">>

ClassInputs ==
    {StrVal(JoinWords(ws)) : ws \in UNION {[1..n -> ClassWords] : n \in 0..MaxClassWords}}
      \cup {StrVal(CompoundExample), StrVal(LowExample), NoneText}

ClassInit ==
    /\ DashIdle
    /\ CleanIdle
    /\ env \in {e \in Envs : e.initOk /\ e.tokOk /\ e.scorer = "raises"}
    /\ texts \in {<<v>> : v \in ClassInputs}
    /\ bi = 0
    /\ results = <<>>
    /\ bout = <<>>
    /\ bpc = "off"
    /\ probe = [done |-> FALSE]

\* A caller classifies the text.
Classify ==
    /\ ~probe.done
    /\ probe' = [done |-> TRUE, arg |-> texts[1], cls |-> classify(texts[1])]
    /\ UNCHANGED <<env, texts, bi, results, bout, bpc, dashVars, cleanVars>>

ClassNext == Classify

ClassSpec == ClassInit /\ [][ClassNext]_vars

(***************************************************************************)
(* PipeSpec: the batch pipeline of collect_and_analyze_data's real path,   *)
(* analyze_batch_reports followed by prioritize_reports, over a batch of   *)
(* raw reports.  Both methods are modelled from the specification          *)
(* (sections 3, 4.3, 4.4 and 7); `texts` holds the raw reports, `results`  *)
(* the analyzed ones and `bout` the prioritized list.                      *)
(***************************************************************************)
MaxReports == 2

\* A report without a text key.
MissingText == [kind |-> "missing", chars |-> <<>>]

ReportTexts ==
    {StrVal(<<"M","a","j","o","r"," ","f","l","o","o","d","i","n","g">>),
     StrVal(<<"m","i","n","o","r">>),
     StrVal(<<>>), NoneText, MissingText}
ReportTimes == {1, 2}
ReportIds == 1..MaxReports

\* RawReport: the ids of a batch are unique.
RawReports == [id : ReportIds, text : ReportTexts, timestamp : ReportTimes]
RawBatches ==
    {b \in UNION {[1..n -> RawReports] : n \in 0..MaxReports} :
        \A i, j \in 1..Len(b) : i # j => b[i].id # b[j].id}

\* The text the analysis works on: a missing key reads as None.
ReportText(r) == IF r.text.kind = "missing" THEN NoneText ELSE r.text

\* Severity tier weights of the priority.
SeverityWeight(sev) ==
    IF sev = "high" THEN 3 ELSE IF sev = "medium" THEN 2 ELSE IF sev = "low" THEN 1 ELSE 0

\* The cap of the hazard-tag count's contribution to the priority.
TagCap == 2
CappedTags(n) == IF n <= TagCap THEN n ELSE TagCap

\* The independent signals that agree, of hazard match, severity resolved and
\* decisive sentiment (location resolution is not modelled).
Signals(cls, sent) ==
    (IF cls.hazards # {} THEN 1 ELSE 0) + (IF cls.severity # "unknown" THEN 1 ELSE 0)
      + (IF sent.negative # sent.positive THEN 1 ELSE 0)

\* The record analyze_batch_reports makes of one report: the classification,
\* the sentiment, the confidence and the priority (thousandths; every weight
\* is 1 and every source trusted 1.0).  A report without a text gets the safe
\* defaults with confidence 0.
analyze_report(r, e) ==
    LET v == ReportText(r)
        cls == classify(v)
        sent == analyze_sentiment(v, e).val
    IN  [original_data |-> r,
         hazards |-> cls.hazards,
         severity |-> cls.severity,
         sentiment |-> sent,
         confidence |-> IF v.kind = "str" /\ v.chars # <<>>
                         THEN Signals(cls, sent) ELSE 0,
         priority |-> 1000 * (SeverityWeight(cls.severity)
                                + CappedTags(Cardinality(cls.hazards)))
                        + sent.negative]

\* A sort key that leaves out the report id.
Before_NoId(a, b) ==
    \/ a.priority > b.priority
    \/ /\ a.priority = b.priority
       /\ a.original_data.timestamp > b.original_data.timestamp

\* The order of the prioritized list: priority descending, then the most
\* recent timestamp first, then the id ascending.
Before(a, b) ==
    \/ a.priority > b.priority
    \/ /\ a.priority = b.priority
       /\ a.original_data.timestamp > b.original_data.timestamp
    \/ /\ a.priority = b.priority
       /\ a.original_data.timestamp = b.original_data.timestamp
       /\ a.original_data.id < b.original_data.id

\* Insert x into the sorted list s, behind the items it is not before.
RECURSIVE InsertReport(_, _)
InsertReport(s, x) ==
    IF s = <<>> THEN <<x>>
    ELSE IF Before(x, Head(s)) THEN <<x>> \o s
    ELSE <<Head(s)>> \o InsertReport(Tail(s), x)

\* prioritize_reports(analyzed): a stable sort by the order above.
RECURSIVE prioritize_reports(_)
prioritize_reports(rs) ==
    IF rs = <<>> THEN <<>>
    ELSE InsertReport(prioritize_reports(SubSeq(rs, 1, Len(rs) - 1)), rs[Len(rs)])

\* analyze_batch_reports(raw) as one value.
analyze_batch_reports(raw, e) == [i \in 1..Len(raw) |-> analyze_report(raw[i], e)]

PipeInit ==
    /\ DashIdle
    /\ CleanIdle
    /\ env \in {e \in Envs : e.initOk /\ e.tokOk /\ e.probs = <<900, 100>>}
    /\ texts \in RawBatches
    /\ bi = 0
    /\ results = <<>>
    /\ bout = <<>>
    /\ bpc = "start"
    /\ probe = [done |-> FALSE]

\* analyze_batch_reports begins its loop over the raw reports.
AnalyzeEnter ==
    /\ bpc = "start"
    /\ bpc' = "loop"
    /\ bi' = 1
    /\ UNCHANGED <<env, texts, results, bout, probe, dashVars, cleanVars>>

\* A loop that passes over the reports without a text.
AnalyzeItem_SkipsEmpty ==
    /\ bpc = "loop"
    /\ bi <= Len(texts)
    /\ results' = IF ReportText(texts[bi]).kind = "str" /\ ReportText(texts[bi]).chars # <<>>
                    THEN Append(results, analyze_report(texts[bi], env))
                    ELSE results
    /\ bi' = bi + 1
    /\ UNCHANGED <<env, texts, bout, bpc, probe, dashVars, cleanVars>>

\* One report is analyzed and its record appended.
AnalyzeItem ==
    /\ bpc = "loop"
    /\ bi <= Len(texts)
    /\ results' = Append(results, analyze_report(texts[bi], env))
    /\ bi' = bi + 1
    /\ UNCHANGED <<env, texts, bout, bpc, probe, dashVars, cleanVars>>

\* prioritize_reports orders the analyzed batch.
Prioritize ==
    /\ bpc = "loop"
    /\ bi > Len(texts)
    /\ bout' = prioritize_reports(results)
    /\ bpc' = "done"
    /\ UNCHANGED <<env, texts, bi, results, probe, dashVars, cleanVars>>

PipeNext == AnalyzeEnter \/ AnalyzeItem \/ Prioritize

PipeSpec == PipeInit /\ [][PipeNext]_vars

(***************************************************************************)
(* PrepSpec: _prepare_data_for_dashboard over the records of               *)
(* current_hazards.  A record (a dict) is a function from the keys it has   *)
(* to their values; values are tokens, as the function only moves them.    *)
(***************************************************************************)
MaxHazards == 2

\* dict.get(k, default)
Get(d, k, default) == IF k \in DOMAIN d THEN d[k] ELSE default

\* The fields of a collected report and those the analysis adds.
FullOriginal ==
    [id |-> "report_1", description |-> "Major flooding", location |-> "Coastal City",
     latitude |-> "34.05", longitude |-> "-118.24", timestamp |-> "15:00",
     source |-> "citizen_report"]
FullAnalysis == [severity |-> "high", hazards |-> "[flood]", confidence |-> "0.9"]

\* What a record may lack: its location and coordinates, its source, each
\* field of the analysis, and the original_data wrapper (the fields of the
\* report are then the record's own, as in the mock data).
Omissions == SUBSET {"place", "source", "severity", "hazards", "confidence", "original_data"}
OriginalKeys(om) ==
    {"id", "description", "timestamp"}
      \cup (IF "place" \in om THEN {} ELSE {"location", "latitude", "longitude"})
      \cup (IF "source" \in om THEN {} ELSE {"source"})
AnalysisKeys(om) == {"severity", "hazards", "confidence"} \ om
HazardRecord(om) ==
    LET od == [k \in OriginalKeys(om) |-> FullOriginal[k]]
        an == [k \in AnalysisKeys(om) |-> FullAnalysis[k]]
    IN  IF "original_data" \in om
          THEN [k \in OriginalKeys(om) \cup AnalysisKeys(om) |->
                  IF k \in OriginalKeys(om) THEN od[k] ELSE an[k]]
          ELSE [k \in AnalysisKeys(om) \cup {"original_data"} |->
                  IF k = "original_data" THEN od ELSE an[k]]
HazardRecords == {HazardRecord(om) : om \in Omissions}

\* A dashboard item that looks for the severity in the original data.
DashboardItem_SeverityFromOriginal(hazard) ==
    LET original_data == Get(hazard, "original_data", hazard)
    IN  [id |-> Get(original_data, "id", "hash"),
         description |-> Get(original_data, "description",
                             Get(original_data, "text", Get(original_data, "title", ""))),
         location |-> Get(original_data, "location", ""),
         latitude |-> Get(original_data, "latitude", "None"),
         longitude |-> Get(original_data, "longitude", "None"),
         timestamp |-> Get(original_data, "timestamp", "now"),
         severity |-> Get(original_data, "severity", "unknown"),
         hazards |-> Get(hazard, "hazards", "[]"),
         source |-> Get(original_data, "source", "unknown"),
         confidence |-> Get(hazard, "confidence", "0.0")]

\* The dashboard_item built for one record of current_hazards.
DashboardItem(hazard) ==
    LET original_data == Get(hazard, "original_data", hazard)
    IN  [id |-> Get(original_data, "id", "hash"),
         description |-> Get(original_data, "description",
                             Get(original_data, "text", Get(original_data, "title", ""))),
         location |-> Get(original_data, "location", ""),
         latitude |-> Get(original_data, "latitude", "None"),
         longitude |-> Get(original_data, "longitude", "None"),
         timestamp |-> Get(original_data, "timestamp", "now"),
         severity |-> Get(hazard, "severity", "unknown"),
         hazards |-> Get(hazard, "hazards", "[]"),
         source |-> Get(original_data, "source", "unknown"),
         confidence |-> Get(hazard, "confidence", "0.0")]

\* _prepare_data_for_dashboard(): iterating a current_hazards that is not a
\* list raises TypeError; there is no try.
prepare_data_for_dashboard(cur) ==
    IF ~cur.isList THEN [raised |-> TRUE, val |-> <<>>]
    ELSE [raised |-> FALSE,
          val |-> [i \in 1..Len(cur.items) |-> DashboardItem(cur.items[i])]]

PrepInit ==
    /\ running = FALSE
    /\ interval = "ok"
    /\ real = TRUE
    /\ current_hazards \in
         {ListVal(s) : s \in UNION {[1..n -> HazardRecords] : n \in 0..MaxHazards}}
           \cup {NoneVal}
    /\ hazard_history = <<>>
    /\ histObj = 0
    /\ pc = [t \in Threads |-> IF t = "main" THEN "init" ELSE
                               IF t = "loop" THEN "unstarted" ELSE "idle"]
    /\ batch = [t \in Threads |-> ListVal(<<>>)]
    /\ ref = [t \in Threads |-> 0]
    /\ tmp = [t \in Threads |-> <<>>]
    /\ failed = [t \in Threads |-> FALSE]
    /\ nextId = 1
    /\ calls = 0
    /\ log = <<>>
    /\ snap = [cur |-> ListVal(<<>>), hist |-> <<>>]
    /\ CleanIdle
    /\ NlpIdle

\* The presentation layer asks for the data of the dashboard.
Prepare ==
    /\ ~probe.done
    /\ probe' = [done |-> TRUE, prep |-> prepare_data_for_dashboard(current_hazards)]
    /\ UNCHANGED <<env, texts, bi, results, bout, bpc, dashVars, cleanVars>>

PrepNext == Prepare

PrepSpec == PrepInit /\ [][PrepNext]_vars

(***************************************************************************)
(* CollectSpec: DataCollector (data_collector.py).  self.sources, a dict   *)
(* that keeps the order in which its keys were first inserted, is the      *)
(* sequence of its (name, source) items; a source is what its collect_data *)
(* does when called.  Here env is the collector, texts the calls of        *)
(* register_source made so far, results the local all_data, bout the value *)
(* returned.                                                               *)
(***************************************************************************)
MaxRegistrations == 2
ItemsPerSource == 2

\* What source.collect_data(source_params) followed by all_data.extend does:
\* returns a list with items or an empty one, raises an Exception, or
\* returns None, which extend cannot iterate.
Outcomes == {"items", "empty", "raises", "none"}

BuiltinNames == <<"citizen_reports", "social_media", "news_feeds">>
RegNames == {"citizen_reports", "buoys", "tide_gauges"}

Source(i, o) == [id |-> i, out |-> o]

\* The list a source returns: its own items, in its own order.
SourceItems(src) ==
    IF src.out = "items" THEN [k \in 1..ItemsPerSource |-> [src |-> src.id, k |-> k]]
    ELSE <<>>

\* The exception the try block of collect_all_data ends with ("" for none).
Raised(src) ==
    IF src.out = "raises" THEN "SourceError"
    ELSE IF src.out = "none" THEN "TypeError"
    ELSE ""

\* A handler that catches the TypeError of extend only.
Caught_OnlyTypeError(exc) == exc = "TypeError"

\* except Exception as e:
Caught(exc) == exc \in {"SourceError", "TypeError"}

\* self.sources[name] = source: a name the dict has keeps its place.
SetItem(srcs, name, source) ==
    IF \E i \in 1..Len(srcs) : srcs[i].name = name
      THEN [i \in 1..Len(srcs) |->
              IF srcs[i].name = name THEN [name |-> name, source |-> source] ELSE srcs[i]]
      ELSE Append(srcs, [name |-> name, source |-> source])

\* DataCollector(): the three built-in sources, which catch their own errors
\* and return their list or an empty one.
CollectInit ==
    /\ DashIdle
    /\ CleanIdle
    /\ \E o \in [1..3 -> {"items", "empty"}] :
         env = [sources |-> [i \in 1..3 |-> [name |-> BuiltinNames[i], source |-> Source(i, o[i])]],
                collected_data |-> <<>>]
    /\ texts = <<>>
    /\ bi = 0
    /\ results = <<>>
    /\ bout = <<>>
    /\ bpc = "idle"
    /\ probe = [done |-> FALSE]

\* register_source(name, source)
RegisterSource ==
    /\ bpc = "idle"
    /\ Len(texts) < MaxRegistrations
    /\ \E name \in RegNames, o \in Outcomes :
         LET source == Source(4 + Len(texts), o) IN
         /\ env' = [env EXCEPT !.sources = SetItem(env.sources, name, source)]
         /\ texts' = Append(texts, [name |-> name, source |-> source])
    /\ UNCHANGED <<bi, results, bout, bpc, probe, dashVars, cleanVars>>

\* collect_all_data(): all_data = [] and the loop over self.sources.items().
CollectEnter ==
    /\ bpc = "idle"
    /\ results' = <<>>
    /\ bi' = 1
    /\ bpc' = "loop"
    /\ UNCHANGED <<env, texts, bout, probe, dashVars, cleanVars>>

\* One source: the try block and its handler.
CollectSource ==
    /\ bpc = "loop"
    /\ bi <= Len(env.sources)
    /\ LET source == env.sources[bi].source IN
       IF Raised(source) = ""
         THEN /\ results' = results \o SourceItems(source)
              /\ bi' = bi + 1
              /\ bpc' = bpc
         ELSE IF Caught(Raised(source))
           THEN /\ bi' = bi + 1
                /\ UNCHANGED <<results, bpc>>
           ELSE /\ bpc' = "raised"
                /\ UNCHANGED <<results, bi>>
    /\ UNCHANGED <<env, texts, bout, probe, dashVars, cleanVars>>

\* self.collected_data = all_data; return all_data
CollectReturn ==
    /\ bpc = "loop"
    /\ bi > Len(env.sources)
    /\ env' = [env EXCEPT !.collected_data = results]
    /\ bout' = results
    /\ bpc' = "done"
    /\ UNCHANGED <<texts, bi, results, probe, dashVars, cleanVars>>

CollectNext == RegisterSource \/ CollectEnter \/ CollectSource \/ CollectReturn

CollectSpec == CollectInit /\ [][CollectNext]_vars

(***************************************************************************)
(* The properties checked.                                                 *)
(***************************************************************************)

\* No call of collect_and_analyze_data is between its extend and the end of
\* its size check.
NoUpdateInProgress == \A t \in Threads : pc[t] \notin MidUpdate

\* The last k entries of s, written out (k <= Len(s)).
IsTailOf(h, s) ==
    /\ Len(h) <= Len(s)
    /\ \A i \in 1..Len(h) : h[i] = s[Len(s) - Len(h) + i]

Min(a, b) == IF a <= b THEN a ELSE b

\* C1 (SeqSpec): after every completed call of collect_and_analyze_data, on
\* the real path and on the mock path, whatever the number of calls and the
\* batch sizes, hazard_history holds at most 1000 entries.
C1_HistoryBounded ==
    NoUpdateInProgress => Len(hazard_history) <= HistoryCap

\* A mock-path call has returned after evicting: more than 1000 reports were
\* appended, five a call, and 1000 are kept.
C1_Witness ==
    /\ ~real
    /\ \E t \in Threads : pc[t] = "return" /\ ~failed[t]
    /\ Len(log) > HistoryCap
    /\ Len(hazard_history) = HistoryCap

\* C2 (SeqSpec): after any sequence of calls executed one after the other,
\* hazard_history is the last min(1000, n) of the n reports appended so far,
\* in the order they were appended.
C2_FifoEviction ==
    NoUpdateInProgress =>
        /\ Len(hazard_history) = Min(HistoryCap, Len(log))
        /\ IsTailOf(hazard_history, log)

\* A real-path call has returned after evicting the oldest entries.
C2_Witness ==
    /\ real
    /\ \E t \in Threads : pc[t] = "return" /\ ~failed[t]
    /\ Len(log) > HistoryCap
    /\ hazard_history # <<>>
    /\ hazard_history[1] # log[1]

\* C3 (Spec): a reader that looks at hazard_history at any instant, also while
\* a call is executing in another thread, never sees more than 1000 entries.
C3_ReaderNeverSeesOverCap ==
    Len(hazard_history) <= HistoryCap

\* C4 (Spec): at any instant at most one execution of
\* collect_and_analyze_data is in progress, counting the refresh loop, the
\* initial collection of start() and the refresh_data callback.
C4_SingleProducer ==
    Cardinality({t \in Threads : Executing(t)}) <= 1

\* C5 (Spec): after a failing run, while running is true, the refresh loop
\* has not terminated: the failure was caught and the loop goes on to its
\* next call.
C5_FailingRunKeepsLoopAlive ==
    (running /\ failed["loop"]) => pc["loop"] \notin {"crashed", "exited"}

\* C6 (SeqSpec): when a call of collect_and_analyze_data ends through its
\* except clause, current_hazards and hazard_history are what they were
\* before the call.
C6_FailedRunLeavesState ==
    \A t \in Threads :
        (pc[t] = "return" /\ failed[t]) =>
            /\ current_hazards = snap.cur
            /\ hazard_history = snap.hist

C8_BatchKeepsEveryText ==
    (bpc = "done" /\ texts # <<>>) =>
        /\ Len(bout) = Len(texts)
        /\ \A i \in 1..Len(texts) : bout[i].pre.original_text = texts[i]

\* C9 (NlpSpec): for an empty string, None or a value that is not a string,
\* preprocess_text returns an empty cleaned text and empty token lists and
\* does not raise, and clean_text returns the empty string.
C9_NormalizerTotal ==
    (probe.done /\ (probe.arg.kind # "str" \/ probe.arg.chars = <<>>)) =>
        /\ ~probe.pre.raised
        /\ probe.pre.cleaned_text = <<>>
        /\ probe.pre.tokens = <<>>
        /\ probe.pre.tokens_no_stopwords = <<>>
        /\ probe.pre.lemmatized_tokens = <<>>
        /\ ~probe.clean.raised
        /\ probe.clean.val = <<>>

\* C10 (CleanSpec): clean_text(clean_text(x)) = clean_text(x) for every
\* string x.
C10_CleanIdempotent ==
    cpc = "twice" => recleaned = cleaned

\* The position of the first occurrence of w in the sequence s.
FirstIndex(s, w) == CHOOSE i \in 1..Len(s) : s[i] = w /\ \A j \in 1..(i - 1) : s[j] # w

CountIn(s, w) == Cardinality({i \in 1..Len(s) : s[i] = w})

\* C11: extract_keywords(text, top_n) with top_n >= 0 returns at most top_n
\* pairs, each a lemma longer than 2 with its exact number of occurrences, in
\* non-increasing order of frequency, lemmas of equal frequency in the order
\* of their first occurrence, and no lemma left out is more frequent than a
\* returned one.
C11_TopKeywords ==
    (probe.done /\ "kw" \in DOMAIN probe) =>
        LET k == probe.kw.val
            lem == probe.lemmas
        IN  /\ ~probe.kw.raised
            /\ Len(k) <= probe.top_n
            /\ \A i \in 1..Len(k) :
                 /\ Len(k[i].keyword) > 2
                 /\ \E j \in 1..Len(lem) : lem[j] = k[i].keyword
                 /\ k[i].frequency = CountIn(lem, k[i].keyword)
            /\ \A i, j \in 1..Len(k) :
                 i < j =>
                   /\ k[i].frequency >= k[j].frequency
                   /\ k[i].frequency = k[j].frequency =>
                        FirstIndex(lem, k[i].keyword) < FirstIndex(lem, k[j].keyword)
            /\ \A j \in 1..Len(lem) :
                 (Len(lem[j]) > 2 /\ \A i \in 1..Len(k) : k[i].keyword # lem[j]) =>
                   \A i \in 1..Len(k) : k[i].frequency >= CountIn(lem, lem[j])

\* Two lemmas tie for the highest frequency and top_n = 1 keeps only the one
\* that occurs first.
C11_Witness ==
    /\ probe.done
    /\ "kw" \in DOMAIN probe
    /\ probe.top_n = 1
    /\ Len(probe.kw.val) = 1
    /\ \E w \in {probe.lemmas[j] : j \in 1..Len(probe.lemmas)} :
         /\ Len(w) > 2
         /\ w # probe.kw.val[1].keyword
         /\ CountIn(probe.lemmas, w) = probe.kw.val[1].frequency
    /\ probe.lemmas # <<>>
    /\ probe.lemmas[1] = probe.kw.val[1].keyword

\* The text value v is a str that is not empty.
IsText(v) == v.kind = "str" /\ v.chars # <<>>

\* C12: for a text that is empty, None or not a string, and whenever the
\* tokenizer or the model raises or was never initialised, analyze_sentiment
\* returns {negative: 1.0, positive: 0.0, label: "negative"} and no exception
\* reaches the caller.
C12_SentimentFailsSafe ==
    (probe.done /\ "sent" \in DOMAIN probe
       /\ (~IsText(probe.arg) \/ env.scorer # "ok")) =>
        /\ ~probe.sent.raised
        /\ probe.sent.val = [negative |-> 1000, positive |-> 0, label |-> "negative"]

\* C13: for every (negative, positive) pair of the scorer the label is
\* "positive" if and only if positive > negative, and "negative" otherwise,
\* the tie included.
C13_LabelStrict ==
    (probe.done /\ "sent" \in DOMAIN probe /\ IsText(probe.arg) /\ env.scorer = "ok") =>
        /\ ~probe.sent.raised
        /\ probe.sent.val.negative = env.probs[1]
        /\ probe.sent.val.positive = env.probs[2]
        /\ probe.sent.val.label \in {"positive", "negative"}
        /\ probe.sent.val.label = "positive" <=> env.probs[2] > env.probs[1]

\* The scorer returned a tie for a text.
C13_Witness ==
    /\ probe.done
    /\ "sent" \in DOMAIN probe
    /\ IsText(probe.arg)
    /\ env.scorer = "ok"
    /\ env.probs[1] = env.probs[2]
    /\ probe.sent.val.label = "negative"

\* C14: whatever analyze_sentiment returns, the default of the empty text and
\* of a failing scorer included, negative + positive = 1.0 (in thousandths,
\* which is coarser than the tolerance of 1e-6, so the sum is exact).
C14_ProbabilitiesSumToOne ==
    (probe.done /\ "sent" \in DOMAIN probe /\ ~probe.sent.raised) =>
        probe.sent.val.negative + probe.sent.val.positive = 1000

\* The scorer raised on a text and the default came back.
C14_Witness ==
    /\ probe.done
    /\ "sent" \in DOMAIN probe
    /\ IsText(probe.arg)
    /\ env.scorer = "raises"
    /\ ~probe.sent.raised
    /\ probe.sent.val.negative = 1000

\* The text of a classified value has an indicator of the tier.
HasIndicator(v, tier) == AnyMatches(severity_indicators[tier], v.chars)

\* C15: severity is high if a high indicator matches, otherwise medium if a
\* medium one matches, otherwise low if a low one matches, otherwise unknown;
\* "minor update on beach conditions" resolves to low.
C15_SeverityPrecedence ==
    (probe.done /\ "cls" \in DOMAIN probe /\ IsText(probe.arg)) =>
        /\ probe.cls.severity =
             IF HasIndicator(probe.arg, "high") THEN "high"
             ELSE IF HasIndicator(probe.arg, "medium") THEN "medium"
             ELSE IF HasIndicator(probe.arg, "low") THEN "low"
             ELSE "unknown"
        /\ probe.arg.chars = LowExample => probe.cls.severity = "low"

\* A text with indicators of two tiers resolved to the higher one.
C15_Witness ==
    /\ probe.done
    /\ "cls" \in DOMAIN probe
    /\ IsText(probe.arg)
    /\ HasIndicator(probe.arg, "medium")
    /\ HasIndicator(probe.arg, "low")
    /\ ~HasIndicator(probe.arg, "high")
    /\ probe.cls.severity = "medium"

\* The text of a classified value matches a pattern of the hazard type.
HasHazard(v, h) == AnyMatches(hazard_patterns[h], v.chars)

\* The fixed vocabulary of hazard types.
Vocabulary ==
    {"flood", "storm_surge", "tsunami", "high_waves", "erosion", "marine_pollution",
     "harmful_algal_bloom", "coastal_storm"}

\* C16: the hazard tags of a text are exactly the types of the vocabulary with
\* a pattern that matches it, all of them and not the first only; a text with
\* "major flooding" and "dangerous waves" is tagged {flood, high_waves} with
\* severity high.
C16_AllMatchesTagged ==
    (probe.done /\ "cls" \in DOMAIN probe /\ IsText(probe.arg)) =>
        /\ probe.cls.hazards = {h \in Vocabulary : HasHazard(probe.arg, h)}
        /\ probe.arg.chars = CompoundExample =>
             /\ probe.cls.hazards = {"flood", "high_waves"}
             /\ probe.cls.severity = "high"

\* A text came out with two tags.
C16_Witness ==
    /\ probe.done
    /\ "cls" \in DOMAIN probe
    /\ IsText(probe.arg)
    /\ Cardinality(probe.cls.hazards) = 2

\* C17: in every classification the hazard-tag set is not empty when the
\* severity is not unknown.
C17_SeverityImpliesTag ==
    (probe.done /\ "cls" \in DOMAIN probe) =>
        (probe.cls.severity # "unknown" => probe.cls.hazards # {})

\* C18: a text that matches no hazard pattern and at least one severity
\* indicator is recorded with the tier resolved from the indicators and an
\* empty hazard-tag set; "Major" alone is high with no tag.
C18_SeverityWithoutTag ==
    (probe.done /\ "cls" \in DOMAIN probe /\ IsText(probe.arg)
       /\ (\A h \in Vocabulary : ~HasHazard(probe.arg, h))) =>
        /\ (\E tier \in {"high", "medium", "low"} : HasIndicator(probe.arg, tier)) =>
             /\ probe.cls.hazards = {}
             /\ probe.cls.severity # "unknown"
             /\ HasIndicator(probe.arg, probe.cls.severity)
             /\ probe.cls.severity # "high" => ~HasIndicator(probe.arg, "high")
             /\ probe.cls.severity = "low" => ~HasIndicator(probe.arg, "medium")
        /\ probe.arg.chars = <<"M","a","j","o","r">> =>
             probe.cls = [hazards |-> {}, severity |-> "high"]

\* A text with an indicator and no hazard pattern was classified.
C18_Witness ==
    /\ probe.done
    /\ "cls" \in DOMAIN probe
    /\ IsText(probe.arg)
    /\ \A h \in Vocabulary : ~HasHazard(probe.arg, h)
    /\ HasIndicator(probe.arg, "medium")
    /\ probe.cls.severity = "medium"
    /\ probe.cls.hazards = {}

\* The report has no text: it is empty, None or missing.
NoText(r) == r.text.kind \in {"none", "missing"} \/ r.text.chars = <<>>

\* C19: every report whose text is empty, None or missing gets a record, with
\* an empty hazard-tag set, severity unknown and a confidence no record of the
\* batch is below; no report is lost on the way.
C19_EmptyTextSafeDefaults ==
    bpc = "done" =>
        /\ Len(bout) = Len(texts)
        /\ \A i \in 1..Len(texts) :
             NoText(texts[i]) =>
               \E j \in 1..Len(bout) :
                 /\ bout[j].original_data = texts[i]
                 /\ bout[j].hazards = {}
                 /\ bout[j].severity = "unknown"
                 /\ bout[j].confidence = 0
                 /\ \A k \in 1..Len(bout) : bout[j].confidence <= bout[k].confidence

\* A batch of a report without a text and a report with hazard and severity
\* went through.
C19_Witness ==
    /\ bpc = "done"
    /\ Len(bout) = 2
    /\ \E i \in 1..2 : texts[i].text.kind = "missing"
    /\ \E j \in 1..2 : bout[j].severity = "high" /\ bout[j].confidence > 0

\* The permutations of 1..n.
Perms(n) == {q \in [1..n -> 1..n] : \A i, j \in 1..n : i # j => q[i] # q[j]}

\* C20: the prioritized list is a permutation of the batch in descending
\* priority, ties broken by the most recent timestamp and then by ascending
\* id; the same batch in any input order gives the same list, and an empty
\* batch gives an empty list.
C20_TotalOrder ==
    bpc = "done" =>
        /\ Len(bout) = Len(texts)
        /\ results = analyze_batch_reports(texts, env)
        /\ \A i \in 1..Len(results) : \E j \in 1..Len(bout) : bout[j] = results[i]
        /\ \A i, j \in 1..Len(bout) :
             i < j =>
               \/ bout[i].priority > bout[j].priority
               \/ /\ bout[i].priority = bout[j].priority
                  /\ bout[i].original_data.timestamp > bout[j].original_data.timestamp
               \/ /\ bout[i].priority = bout[j].priority
                  /\ bout[i].original_data.timestamp = bout[j].original_data.timestamp
                  /\ bout[i].original_data.id < bout[j].original_data.id
        /\ \A q \in Perms(Len(texts)) :
             prioritize_reports([i \in 1..Len(results) |-> results[q[i]]]) = bout
        /\ texts = <<>> => bout = <<>>

\* Two reports equal in priority and timestamp came in with the larger id
\* first and left with the smaller id first.
C20_Witness ==
    /\ bpc = "done"
    /\ Len(bout) = 2
    /\ bout[1].priority = bout[2].priority
    /\ bout[1].original_data.timestamp = bout[2].original_data.timestamp
    /\ texts[1].id > texts[2].id
    /\ bout[1].original_data.id < bout[2].original_data.id

\* C21: for a current_hazards list whose records may lack location, latitude,
\* longitude, source, severity, hazards, confidence or original_data,
\* _prepare_data_for_dashboard raises nothing and returns one item per record
\* in the order of the list, with the record's severity, hazards and
\* confidence, or "unknown", the empty list and 0.0 where the record has none.
C21_AbsentFieldsDefault ==
    (probe.done /\ "prep" \in DOMAIN probe /\ current_hazards.isList) =>
        /\ ~probe.prep.raised
        /\ Len(probe.prep.val) = Len(current_hazards.items)
        /\ \A i \in 1..Len(current_hazards.items) :
             LET rec == current_hazards.items[i]
                 item == probe.prep.val[i]
                 has(k) == k \in DOMAIN rec
                 org == IF has("original_data") THEN rec.original_data ELSE rec
             IN  /\ item.severity = IF has("severity") THEN rec.severity ELSE "unknown"
                 /\ item.hazards = IF has("hazards") THEN rec.hazards ELSE "[]"
                 /\ item.confidence = IF has("confidence") THEN rec.confidence ELSE "0.0"
                 /\ item.id = org.id
                 /\ item.description = org.description
                 /\ item.timestamp = org.timestamp
                 /\ "location" \in DOMAIN org => item.location = org.location
                 /\ "source" \in DOMAIN org => item.source = org.source

\* Two records went through, one wrapped and complete, the other without
\* wrapper, severity, hazards and confidence.
C21_Witness ==
    /\ probe.done
    /\ "prep" \in DOMAIN probe
    /\ current_hazards.isList
    /\ Len(current_hazards.items) = 2
    /\ DOMAIN current_hazards.items[1] = {"severity", "hazards", "confidence", "original_data"}
    /\ DOMAIN current_hazards.items[2] \cap {"severity", "hazards", "confidence", "original_data"} = {}
    /\ probe.prep.val[1].severity = "high"
    /\ probe.prep.val[2].severity = "unknown"

\* stop() has cleared running after a start() (StopSpec).
Stopped == ~running /\ pc["loop"] # "unstarted"

\* The refresh thread has ended.
LoopEnded == pc["loop"] \in {"exited", "crashed"}

\* With one start() and one stop() (StopSpec, the refresh thread scheduled
\* fairly) the stopped loop begins no call after the run or sleep it was in,
\* and ends.
SingleStopEndsLoop ==
    /\ [][(Stopped /\ pc["loop"] \in {"sleep", "handler", "while", "exited", "crashed"})
            => pc'["loop"] \notin {"begin", "pipeline"}]_vars
    /\ Stopped ~> LoopEnded

\* stop() has cleared running since thread t was started: running is false,
\* or a later start() has made another thread.
StoppedSince(t) ==
    /\ pc[t] # "unstarted"
    /\ ~running \/ LoopNames[Started] # t

\* C22 (RestartSpec): once stop() has set running to False, a refresh loop
\* that comes back to its while test after the run or sleep it was in goes
\* into no further iteration: it starts no further call of
\* collect_and_analyze_data, and leaves.
C22_StopEndsLoop ==
    [][\A t \in LoopThreads :
          (StoppedSince(t) /\ pc[t] = "while") => pc'[t] # "begin"]_vars

\* Both executions of RaceSpec have returned to their callers.
BothCompleted == pc["loop"] = "sleep" /\ pc["cb"] = "idle"

\* C23 (RaceSpec): after two concurrent executions of
\* collect_and_analyze_data have both completed, every report appended by
\* either is in hazard_history, except the oldest ones beyond the 1000-entry
\* cap.
C23_NoReportLost ==
    BothCompleted =>
        \A i \in 1..Len(log) :
            i > Len(log) - HistoryCap =>
                \E j \in 1..Len(hazard_history) : hazard_history[j] = log[i]

\* C24 (RestartSpec): over any sequence of start() and stop() calls, at most
\* one refresh thread is executing _data_refresh_loop at any time, also after
\* a stop() whose join timed out on a sleeping thread and a start() after it.
C24_AtMostOneLoop ==
    Cardinality({t \in LoopThreads : LoopAlive(t)}) <= 1

\* The loops of two start() calls have both passed their while test.
C24_BothLoopsGoOn ==
    \A t \in LoopThreads : pc[t] = "begin"

\* The names registered, built-in ones first, each once, in the order of
\* their first registration.
RECURSIVE NamesInOrder(_, _)
NamesInOrder(seen, events) ==
    IF events = <<>> THEN seen
    ELSE NamesInOrder(IF \E i \in 1..Len(seen) : seen[i] = Head(events).name
                        THEN seen ELSE Append(seen, Head(events).name),
                      Tail(events))

\* The source now registered under a name: that of the last register_source
\* call with the name, or else the built-in one (its outcome read from env).
RECURSIVE LatestSource(_, _, _)
LatestSource(name, events, builtin) ==
    IF events = <<>> THEN builtin
    ELSE IF events[Len(events)].name = name THEN events[Len(events)].source
    ELSE LatestSource(name, SubSeq(events, 1, Len(events) - 1), builtin)

RECURSIVE ConcatResults(_)
ConcatResults(srcs) ==
    IF srcs = <<>> THEN <<>>
    ELSE SourceItems(Head(srcs)) \o ConcatResults(Tail(srcs))

\* The sources collect_all_data is expected to go through, from the calls
\* made: one per name, in registration order.
ExpectedSources ==
    LET names == NamesInOrder(BuiltinNames, texts) IN
    [i \in 1..Len(names) |->
        LatestSource(names[i], texts,
                     IF i <= 3 THEN env.sources[i].source ELSE Source(0, "empty"))]

\* C25 (CollectSpec): whichever sources are registered and whichever of
\* them fail, collect_all_data does not raise; it returns the results of the
\* sources that did not fail, concatenated in registration order, and
\* collected_data is that list.
C25_FailuresIsolated ==
    /\ bpc # "raised"
    /\ bpc = "done" =>
        /\ bout = ConcatResults(ExpectedSources)
        /\ env.collected_data = bout

\* A registered source raised, and a source after it was collected.
C25_Witness ==
    /\ bpc = "done"
    /\ \E i, j \in 1..Len(env.sources) :
        /\ i < j
        /\ env.sources[i].source.out = "raises"
        /\ env.sources[j].source.out = "items"
        /\ \E k \in 1..Len(bout) : bout[k].src = env.sources[j].source.id

====
